---- MODULE Spec2Model ----
(***************************************************************************)
(* Wallet ledger and payment reconciliation of src/app.py.                 *)
(*                                                                         *)
(* The store (Supabase tables) is the shared state.  Every request handler *)
(* runs in one of NProcs request slots and is cut into one action per      *)
(* store call, so that concurrent requests interleave between store calls, *)
(* as Flask workers over one database do.  Purely local computation is     *)
(* folded into the store call that precedes it.                            *)
(*                                                                         *)
(* Money is counted in paise (1/100 INR), the smallest unit of the         *)
(* currency: on such amounts round(x, 2) only rounds what a multiplication *)
(* by a rate has produced.                                                 *)
(***************************************************************************)
EXTENDS Integers, Sequences, FiniteSets, TLC

VARIABLES
    user_wallets,     \* table user_wallets: user_id -> wallet row
    profiles,         \* table profiles: id -> [referrer_id]
    manual_payments,  \* table manual_payments: row id = index
    transactions,     \* table transactions: row id = index
    commissions,      \* table commissions (append only)
    today,            \* the current day (datetime.date.today())
    pc,               \* per request slot: the store call the handler is at
    loc,              \* per request slot: the handler's local variables
    incrCount,        \* history: increment_recharged_amount calls per UTR
    okVerify,         \* history: a verification of the UTR returned success
    utrPhase,         \* history, per UTR: "open", "read" once a verification has read its rows, "late" once a submission arrived after that
    gwIncr,           \* history: increment_recharged_amount calls per gateway order
    refunds           \* history: refund writes per transaction id

vars == <<user_wallets, profiles, manual_payments, transactions, commissions,
          today, pc, loc, incrCount, okVerify, utrPhase, gwIncr, refunds>>

store == <<user_wallets, profiles, manual_payments, transactions, commissions>>

-----------------------------------------------------------------------------
(* Bounds of the model *)

NProcs == 2          \* request slots (concurrent requests)
NumUTRs == 1         \* distinct UTR numbers submitted
MaxPayments == 3     \* rows of manual_payments
MaxTx == 3           \* rows of transactions
MaxOrders == 1       \* gateway orders created
MaxGwVerifies == 2   \* verify_razorpay_payment requests
MaxResolves == 2     \* update_withdrawal_status_logic requests
MaxDay == 1          \* days that pass
MaxSignups == 2      \* sign-up bonuses pending in one wallet

Procs == 1..NProcs
UTRs == 1..NumUTRs
Users == {"u1", "u2"}
NoUser == "none"
RechargeAmounts == {1000, 2000}
OneAmount == {1000}
\* isinstance(amount, (int, float)) and amount is not 0: any number passes
\* the checks of confirm_manual_payment, a negative one too.
SignedAmounts == {-1000, 1000}

-----------------------------------------------------------------------------
(* Store rows *)

NewWallet ==
    [balance |-> 0, order_income |-> 0, total_referral_earnings |-> 0,
     pending_referral_bonus |-> 0, recharged_amount |-> 0]

NoLoc ==
    [op |-> "none", utr |-> 0, user |-> NoUser, amount |-> 0, rows |-> <<>>,
     i |-> 0, first |-> FALSE, tx |-> 0, status |-> "none", cur |-> 0,
     order |-> 0, read |-> NewWallet, res |-> "none",
     \* history: what the store held when the request started
     g_wallet |-> NewWallet, g_ntx |-> 0, g_status |-> "none", g_credit |-> FALSE,
     g_all |-> [u \in Users |-> NewWallet], g_ncomm |-> 0, g_count |-> 0,
     \* history: how the commission cascade of the request went
     casc |-> "none",
     \* history: the store call of the request that failed
     fail |-> "none"]

Active(p) == pc[p] \notin {"idle", "done"}

\* The handler of slot p returns res.
Done(p, l, res) ==
    /\ pc' = [pc EXCEPT ![p] = "done"]
    /\ loc' = [loc EXCEPT ![p] = [l EXCEPT !.res = res]]

Goto(p, l, label) ==
    /\ pc' = [pc EXCEPT ![p] = label]
    /\ loc' = [loc EXCEPT ![p] = l]

\* The sequences that list every element of S once: the orders in which a
\* select without ORDER BY may return rows.
Orders(S) ==
    {s \in [1..Cardinality(S) -> S] : \A a, b \in 1..Cardinality(S) : a # b => s[a] # s[b]}

-----------------------------------------------------------------------------
(* confirm_manual_payment *)

BadUTR == 0   \* a utrNumber that is not 12 characters long

ConfirmManualPayment(p, u, a, utr) ==
    /\ pc[p] = "idle"
    /\ IF utr = BadUTR
       THEN UNCHANGED vars
       ELSE /\ Len(manual_payments) < MaxPayments
            /\ manual_payments' = Append(manual_payments,
                   [user_id |-> u, amount |-> a, utr_number |-> utr,
                    status |-> "pending", is_credited |-> FALSE])
            /\ utrPhase' = [utrPhase EXCEPT ![utr] = IF @ = "open" THEN "open" ELSE "late"]
            /\ UNCHANGED <<user_wallets, profiles, transactions, commissions, today,
                           pc, loc, incrCount, okVerify, gwIncr, refunds>>

-----------------------------------------------------------------------------
(* admin_verify_manual_payment *)

\* Mutant: the select without its filter on status.
PendingIdsAnyStatus(utr) ==
    {id \in DOMAIN manual_payments : manual_payments[id].utr_number = utr}

PendingIds(utr) ==
    {id \in DOMAIN manual_payments :
        /\ manual_payments[id].utr_number = utr
        /\ manual_payments[id].status = "pending"}

\* select('user_id,amount,id,is_credited'): the row as the handler holds it.
Row(id) ==
    [id |-> id, user_id |-> manual_payments[id].user_id,
     amount |-> manual_payments[id].amount,
     is_credited |-> manual_payments[id].is_credited]

\* update({'status': 'completed', 'is_credited': True}).eq('id', id)
MarkCredited(id) ==
    [manual_payments EXCEPT ![id] = [@ EXCEPT !.status = "completed", !.is_credited = TRUE]]

\* Mutant: the payload of the crediting update, copied to the other rows.
MarkCompletedAsCredited(id) ==
    [manual_payments EXCEPT ![id] = [@ EXCEPT !.status = "completed", !.is_credited = TRUE]]

\* update({'status': 'completed'}).eq('id', id)
MarkCompleted(id) ==
    [manual_payments EXCEPT ![id] = [@ EXCEPT !.status = "completed"]]

CreditedIds(utr) ==
    {id \in DOMAIN manual_payments :
        manual_payments[id].utr_number = utr /\ manual_payments[id].is_credited}

\* After the row at loc.i: the next row, or the success response.
NextRow(p, l) ==
    IF l.i = Len(l.rows)
    THEN /\ Done(p, l, "ok")
         /\ okVerify' = IF l.op = "verify" THEN [okVerify EXCEPT ![l.utr] = TRUE] ELSE okVerify
    ELSE /\ Goto(p, [l EXCEPT !.i = @ + 1], IF l.op = "verify" THEN "v_row" ELSE "x_row")
         /\ UNCHANGED okVerify

VerifyFetch(p, utr) ==
    /\ pc[p] = "idle"
    /\ \E order \in Orders(PendingIds(utr)) :
          LET rows == [k \in DOMAIN order |-> Row(order[k])]
              l == [NoLoc EXCEPT !.op = "verify", !.utr = utr, !.rows = rows, !.i = 1,
                                 !.g_credit = (CreditedIds(utr) # {}),
                                 !.g_all = user_wallets, !.g_ncomm = Len(commissions)]
          IN  IF rows = <<>>
              THEN Done(p, l, "not_found") /\ UNCHANGED utrPhase
              ELSE /\ Goto(p, l, "v_row")
                   /\ utrPhase' = [utrPhase EXCEPT ![utr] = IF @ = "open" THEN "read" ELSE @]
    /\ UNCHANGED <<store, today, incrCount, okVerify, gwIncr, refunds>>

\* The loop body up to its first store call.
VerifyRow(p) ==
    /\ pc[p] = "v_row"
    /\ LET l == loc[p]
           r == l.rows[l.i]
       IN  CASE r.is_credited ->
                  /\ NextRow(p, l)
                  /\ UNCHANGED manual_payments
             [] ~r.is_credited /\ ~l.first ->
                  /\ manual_payments' = MarkCredited(r.id)
                  /\ Goto(p, l, "v_comm")
                  /\ UNCHANGED okVerify
             [] OTHER ->
                  /\ manual_payments' = MarkCompleted(r.id)
                  /\ NextRow(p, l)
    /\ UNCHANGED <<user_wallets, profiles, transactions, commissions, today,
                   incrCount, utrPhase, gwIncr, refunds>>

\* Mutant: a commission of 5%.
CommissionFivePercent(amount) == (amount * 5) \div 100

\* commission_amount = float(recharge_amount_inr) * 0.10
Commission(amount) == (amount * 10) \div 100

\* Mutant: the update writes the amount over the fields instead of adding it.
IncrementReferralCommissionOverwrite(w, referrer, amount) ==
    [w EXCEPT ![referrer] =
        [@ EXCEPT !.total_referral_earnings = amount, !.order_income = amount]]

\* rpc increment_referral_commission: one atomic row update.
IncrementReferralCommission(w, referrer, amount) ==
    [w EXCEPT ![referrer] =
        [@ EXCEPT !.total_referral_earnings = @ + amount, !.order_income = @ + amount]]

\* rpc increment_recharged_amount: one atomic row update.
IncrementRechargedAmount(w, u, amount) ==
    [w EXCEPT ![u] = [@ EXCEPT !.recharged_amount = @ + amount]]

CommissionLog(referrer, u, amount) ==
    [referrer_id |-> referrer, referred_user_id |-> u,
     commission_amount |-> Commission(amount), investment_amount |-> amount]

\* Mutant: a user without a referrer is given the first user as referrer.
ReferrerOrFirstUser(u) ==
    IF profiles[u].referrer_id = NoUser THEN "u1" ELSE profiles[u].referrer_id

\* referrer_response.data.get('referrer_id'): None for a user nobody referred.
ReferrerOf(u) == profiles[u].referrer_id

\* What the store calls of the commission cascade can do: succeed (the rpc
\* answers 204), or the referrer lookup, the commission rpc or the insert of
\* the commission log raises and changes nothing.
CascadeOutcomes == {"ok", "lookup_raises", "rpc_raises", "log_raises"}

\* A store whose cascade calls all succeed.
NoFailure == {"ok"}

\* A store whose rpc increment_recharged_amount may raise.
IncrementOutcomes == {"ok", "incr_raises"}

\* Mutant: an error of the cascade ends the request.
OnCascadeErrorFail(p, l, label) == Done(p, l, "error")

\* except Exception as commission_error: the error is logged and the handler
\* goes on to the wallet increment.
OnCascadeError(p, l, label) == Goto(p, l, label)

\* The referrer lookup and, for a referred user, the commission rpc.
VerifyCommission(p, outs) ==
    /\ pc[p] = "v_comm"
    /\ \E out \in outs \ {"log_raises"} :
          LET l == loc[p]
              r == l.rows[l.i]
              referrer == ReferrerOf(r.user_id)
          IN  CASE out = "lookup_raises" ->
                     /\ OnCascadeError(p, [l EXCEPT !.casc = out], "v_incr")
                     /\ UNCHANGED user_wallets
                [] out = "rpc_raises" ->
                     /\ referrer # NoUser
                     /\ OnCascadeError(p, [l EXCEPT !.casc = out], "v_incr")
                     /\ UNCHANGED user_wallets
                [] OTHER ->
                     IF referrer = NoUser
                     THEN Goto(p, l, "v_incr") /\ UNCHANGED user_wallets
                     ELSE /\ user_wallets' = IncrementReferralCommission(
                                                 user_wallets, referrer, Commission(r.amount))
                          /\ Goto(p, [l EXCEPT !.casc = out], "v_log")
    /\ UNCHANGED <<profiles, manual_payments, transactions, commissions, today,
                   incrCount, okVerify, utrPhase, gwIncr, refunds>>

\* The insert of the commission log, which succeeds or raises.
VerifyCommissionLog(p, outs) ==
    /\ pc[p] = "v_log"
    /\ \E out \in outs \cap {"ok", "log_raises"} :
          LET l == loc[p]
              r == l.rows[l.i]
          IN  IF out = "ok"
              THEN /\ commissions' = Append(commissions,
                          CommissionLog(ReferrerOf(r.user_id), r.user_id, r.amount))
                   /\ Goto(p, l, "v_incr")
              ELSE /\ UNCHANGED commissions
                   /\ OnCascadeError(p, [l EXCEPT !.casc = out], "v_incr")
    /\ UNCHANGED <<user_wallets, profiles, manual_payments, transactions, today,
                   incrCount, okVerify, utrPhase, gwIncr, refunds>>

\* The rpc increment_recharged_amount; when it raises, the handler raises
\* again and its outer except clause answers 500.
VerifyIncrement(p, outs) ==
    /\ pc[p] = "v_incr"
    /\ \E out \in outs \cap IncrementOutcomes :
          LET l == loc[p]
              r == l.rows[l.i]
          IN  IF out = "ok"
              THEN /\ user_wallets' = IncrementRechargedAmount(
                                          user_wallets, r.user_id, r.amount)
                   /\ incrCount' = [incrCount EXCEPT ![l.utr] = @ + 1]
                   /\ NextRow(p, [l EXCEPT !.first = TRUE])
              ELSE /\ UNCHANGED <<user_wallets, incrCount, okVerify>>
                   /\ Done(p, [l EXCEPT !.fail = "increment"], "error")
    /\ UNCHANGED <<profiles, manual_payments, transactions, commissions, today,
                   utrPhase, gwIncr, refunds>>

-----------------------------------------------------------------------------
(* reject_manual_payment *)

RejectFetch(p, utr) ==
    /\ pc[p] = "idle"
    /\ \E order \in Orders(PendingIds(utr)) :
          LET rows == [k \in DOMAIN order |-> [id |-> order[k]]]
              l == [NoLoc EXCEPT !.op = "reject", !.utr = utr, !.rows = rows, !.i = 1]
          IN  IF rows = <<>>
              THEN Done(p, l, "not_found")
              ELSE Goto(p, l, "x_row")
    /\ UNCHANGED <<store, today, incrCount, okVerify, utrPhase, gwIncr, refunds>>

RejectRow(p) ==
    /\ pc[p] = "x_row"
    /\ LET l == loc[p]
           r == l.rows[l.i]
       IN  /\ manual_payments' = [manual_payments EXCEPT ![r.id] =
                  [@ EXCEPT !.status = "rejected"]]
           /\ NextRow(p, l)
    /\ UNCHANGED <<user_wallets, profiles, transactions, commissions, today,
                   incrCount, utrPhase, gwIncr, refunds>>

-----------------------------------------------------------------------------
(* create_razorpay_order and verify_razorpay_payment *)

\* The id the gateway gives a payment of order o; no order has it.
PaymentId(o) == 0 - o

Orders_created ==
    {o \in 1..MaxOrders : \E t \in DOMAIN transactions :
        transactions[t].type = "recharge" /\ transactions[t].order_id = o}

\* Requests in flight that will insert a row into transactions.
Inserting ==
    {q \in Procs : pc[q] \in {"w_invest", "w_wallet", "w_debit", "w_record",
                               "c_update", "c_record"}}

CreateRazorpayOrder(p, u, a) ==
    /\ pc[p] = "idle"
    /\ Len(transactions) + Cardinality(Inserting) < MaxTx
    /\ \E o \in 1..MaxOrders :
          /\ o \notin Orders_created
          /\ \A o2 \in 1..MaxOrders : o2 < o => o2 \in Orders_created
          /\ transactions' = Append(transactions,
                 [user_id |-> u, amount |-> a, fee |-> 0, type |-> "recharge",
                  status |-> "pending", payment_gateway_id |-> o, order_id |-> o,
                  day |-> today])
    /\ UNCHANGED <<user_wallets, profiles, manual_payments, commissions, today,
                   pc, loc, incrCount, okVerify, utrPhase, gwIncr, refunds>>

\* Mutant: the update matches the transaction by the order it was created for.
UpdateByOrderId(txs, gid, status, newgid) ==
    [t \in DOMAIN txs |->
        IF txs[t].order_id = gid
        THEN [txs[t] EXCEPT !.status = status, !.payment_gateway_id = newgid]
        ELSE txs[t]]

\* update(fields).eq('payment_gateway_id', gid) on transactions.
UpdateByGatewayId(txs, gid, status, newgid) ==
    [t \in DOMAIN txs |->
        IF txs[t].payment_gateway_id = gid
        THEN [txs[t] EXCEPT !.status = status, !.payment_gateway_id = newgid]
        ELSE txs[t]]

GatewayVerifiesInFlight(o) ==
    Cardinality({q \in Procs : Active(q) /\ loc[q].op = "gw_verify" /\ loc[q].order = o})

\* The signature check, then the first store call: with a bad signature the
\* update that marks the order's transaction failed, with a good one the
\* referrer lookup and the commission rpc.
GatewayVerifyStart(p, o, u, a, sig_ok, outs) ==
    /\ pc[p] = "idle"
    /\ \E out \in outs \ {"log_raises"} :
          LET l == [NoLoc EXCEPT !.op = "gw_verify", !.order = o, !.user = u, !.amount = a,
                                 !.g_all = user_wallets, !.g_ncomm = Len(commissions)]
              referrer == ReferrerOf(u)
          IN  IF ~sig_ok
              THEN /\ out = "ok"
                   /\ transactions' = UpdateByGatewayId(transactions, o, "failed", o)
                   /\ Done(p, l, "bad_signature")
                   /\ UNCHANGED user_wallets
              ELSE /\ o \in Orders_created
                   /\ gwIncr[o] + GatewayVerifiesInFlight(o) < MaxGwVerifies
                   /\ UNCHANGED transactions
                   /\ CASE out = "lookup_raises" ->
                             /\ OnCascadeError(p, [l EXCEPT !.casc = out], "g_incr")
                             /\ UNCHANGED user_wallets
                        [] out = "rpc_raises" ->
                             /\ referrer # NoUser
                             /\ OnCascadeError(p, [l EXCEPT !.casc = out], "g_incr")
                             /\ UNCHANGED user_wallets
                        [] OTHER ->
                             IF referrer = NoUser
                             THEN Goto(p, l, "g_incr") /\ UNCHANGED user_wallets
                             ELSE /\ user_wallets' = IncrementReferralCommission(
                                                         user_wallets, referrer, Commission(a))
                                  /\ Goto(p, [l EXCEPT !.casc = out], "g_log")
    /\ UNCHANGED <<profiles, manual_payments, commissions, today,
                   incrCount, okVerify, utrPhase, gwIncr, refunds>>

\* except Exception as e: a store call of the handler has raised; the clause
\* marks the transaction that still carries the order id failed and answers
\* 500.
OnGatewayError(p, l) ==
    /\ transactions' = UpdateByGatewayId(transactions, l.order, "failed", l.order)
    /\ Done(p, l, "error")

GatewayCommissionLog(p, outs) ==
    /\ pc[p] = "g_log"
    /\ \E out \in outs \cap {"ok", "log_raises"} :
          LET l == loc[p]
          IN  IF out = "ok"
              THEN /\ commissions' = Append(commissions,
                          CommissionLog(ReferrerOf(l.user), l.user, l.amount))
                   /\ Goto(p, l, "g_incr")
              ELSE /\ UNCHANGED commissions
                   /\ OnCascadeError(p, [l EXCEPT !.casc = out], "g_incr")
    /\ UNCHANGED <<user_wallets, profiles, manual_payments, transactions, today,
                   incrCount, okVerify, utrPhase, gwIncr, refunds>>

GatewayIncrement(p, outs) ==
    /\ pc[p] = "g_incr"
    /\ \E out \in outs \cap IncrementOutcomes :
          LET l == loc[p]
          IN  IF out = "ok"
              THEN /\ user_wallets' = IncrementRechargedAmount(
                                          user_wallets, l.user, l.amount)
                   /\ gwIncr' = [gwIncr EXCEPT ![l.order] = @ + 1]
                   /\ Goto(p, l, "g_upd")
                   /\ UNCHANGED transactions
              ELSE /\ UNCHANGED <<user_wallets, gwIncr>>
                   /\ OnGatewayError(p, [l EXCEPT !.fail = "increment"])
    /\ UNCHANGED <<profiles, manual_payments, commissions, today,
                   incrCount, okVerify, utrPhase, refunds>>

\* What the update of the order's transaction can do: succeed, or raise and
\* change nothing.
UpdateOutcomes == {"ok", "update_raises"}

\* The update of the order's transaction; the wallet read that follows only
\* feeds the response.
GatewayUpdate(p, outs) ==
    /\ pc[p] = "g_upd"
    /\ \E out \in outs \cap UpdateOutcomes :
          LET l == loc[p]
          IN  IF out = "ok"
              THEN /\ transactions' = UpdateByGatewayId(transactions, l.order, "completed",
                                                       PaymentId(l.order))
                   /\ Done(p, l, "ok")
              ELSE OnGatewayError(p, [l EXCEPT !.fail = "update"])
    /\ UNCHANGED <<user_wallets, profiles, manual_payments, commissions, today,
                   incrCount, okVerify, utrPhase, gwIncr, refunds>>

-----------------------------------------------------------------------------
(* handle_withdrawal_request *)

WithdrawAmounts == {55, 100}

\* Python's round(x, 2) of x = num/den rupees, in paise: the nearest paisa,
\* a tie going to the even one.
Round2(num, den) ==
    LET q == num \div den
        r == num % den
    IN  IF 2 * r > den \/ (2 * r = den /\ q % 2 = 1) THEN q + 1 ELSE q

\* fee_rate = 0.12; withdrawal_fee = round(amount * fee_rate, 2)
WithdrawalFee(amount) == Round2(amount * 12, 100)

\* .eq('user_id', u).eq('type', 'withdrawal').gt('created_at', start_of_day)
WithdrawalsToday(u) ==
    {t \in DOMAIN transactions :
        /\ transactions[t].user_id = u
        /\ transactions[t].type = "withdrawal"
        /\ transactions[t].day >= today}

\* manual_payments .eq('user_id', u).in_('status', ['success', 'completed'])
HasInvestment(u) ==
    \E id \in DOMAIN manual_payments :
        /\ manual_payments[id].user_id = u
        /\ manual_payments[id].status \in {"success", "completed"}

\* Mutant: the limit is three requests a day.
DailyLimitReachedAtThree(count) == count >= 3

\* len(withdrawal_count_response.data) >= 2
DailyLimitReached(count) == count >= 2

\* Mutant: the check only asks for some income.
InsufficientIfNoIncome(current_order_income, amount) == current_order_income <= 0

\* current_order_income < total_amount_to_deduct
Insufficient(current_order_income, amount) == current_order_income < amount

\* Mutant: the fee is debited on top of the amount.
NewOrderIncomeLessFee(current_order_income, amount) ==
    current_order_income - (amount + WithdrawalFee(amount))

\* new_order_income = current_order_income - total_amount_to_deduct
NewOrderIncome(current_order_income, amount) == current_order_income - amount

\* The amount check and the daily count.
WithdrawStart(p, u, a) ==
    /\ pc[p] = "idle"
    /\ \/ Len(transactions) + Cardinality(Inserting) < MaxTx
       \/ Cardinality(WithdrawalsToday(u)) >= 2
    /\ LET l == [NoLoc EXCEPT !.op = "withdraw", !.user = u, !.amount = a,
                             !.g_wallet = user_wallets[u], !.g_ntx = Len(transactions),
                             !.g_count = Cardinality(WithdrawalsToday(u))]
       IN  IF a <= 0
           THEN Done(p, l, "invalid")
           ELSE IF DailyLimitReached(Cardinality(WithdrawalsToday(u)))
           THEN Done(p, l, "limit")
           ELSE Goto(p, l, "w_invest")
    /\ UNCHANGED <<store, today, incrCount, okVerify, utrPhase, gwIncr, refunds>>

WithdrawInvestment(p) ==
    /\ pc[p] = "w_invest"
    /\ LET l == loc[p]
       IN  IF ~HasInvestment(l.user)
           THEN Done(p, l, "no_investment")
           ELSE Goto(p, l, "w_wallet")
    /\ UNCHANGED <<store, today, incrCount, okVerify, utrPhase, gwIncr, refunds>>

WithdrawWallet(p) ==
    /\ pc[p] = "w_wallet"
    /\ LET l == [loc[p] EXCEPT !.cur = user_wallets[loc[p].user].order_income]
       IN  IF Insufficient(l.cur, l.amount)
           THEN Done(p, l, "insufficient")
           ELSE Goto(p, l, "w_debit")
    /\ UNCHANGED <<store, today, incrCount, okVerify, utrPhase, gwIncr, refunds>>

WithdrawDebit(p) ==
    /\ pc[p] = "w_debit"
    /\ LET l == loc[p]
       IN  /\ user_wallets' = [user_wallets EXCEPT
                                  ![l.user].order_income = NewOrderIncome(l.cur, l.amount)]
           /\ Goto(p, l, "w_record")
    /\ UNCHANGED <<profiles, manual_payments, transactions, commissions, today,
                   incrCount, okVerify, utrPhase, gwIncr, refunds>>

\* What the insert of the pending transaction can do: return the new row,
\* return no row, or raise.
InsertOutcomes == {"ok", "empty", "raise"}

\* The insert of the pending transaction.  When it returns no row the handler
\* goes on to the compensating update; when it raises, the handler's except
\* clause answers 500.
WithdrawRecord(p) ==
    /\ pc[p] = "w_record"
    /\ \E out \in InsertOutcomes :
          LET l == loc[p]
          IN  CASE out = "ok" ->
                     /\ transactions' = Append(transactions,
                            [user_id |-> l.user, amount |-> l.amount,
                             fee |-> WithdrawalFee(l.amount),
                             type |-> "withdrawal", status |-> "pending",
                             payment_gateway_id |-> 0, order_id |-> 0, day |-> today])
                     /\ Done(p, [l EXCEPT !.tx = Len(transactions) + 1], "ok")
                [] out = "empty" ->
                     /\ UNCHANGED transactions
                     /\ Goto(p, l, "w_refund")
                [] OTHER ->
                     /\ UNCHANGED transactions
                     /\ Done(p, l, "record_raised")
    /\ UNCHANGED <<user_wallets, profiles, manual_payments, commissions, today,
                   incrCount, okVerify, utrPhase, gwIncr, refunds>>

\* update({'order_income': current_order_income}): the compensation.
WithdrawCompensate(p) ==
    /\ pc[p] = "w_refund"
    /\ LET l == loc[p]
       IN  /\ user_wallets' = [user_wallets EXCEPT ![l.user].order_income = l.cur]
           /\ Done(p, l, "record_failed")
    /\ UNCHANGED <<profiles, manual_payments, transactions, commissions, today,
                   incrCount, okVerify, utrPhase, gwIncr, refunds>>

\* Midnight passes.
NextDay ==
    /\ today < MaxDay
    /\ today' = today + 1
    /\ UNCHANGED <<store, pc, loc, incrCount, okVerify, utrPhase, gwIncr, refunds>>

-----------------------------------------------------------------------------
(* update_withdrawal_status_logic *)

Statuses == {"completed", "rejected", "failed"}

\* Mutant: every resolution refunds.
NeedsRefundAlways(new_status) == new_status = new_status

\* if new_status in ['rejected', 'failed']
NeedsRefund(new_status) == new_status \in {"rejected", "failed"}

ResolvesInFlight(t) ==
    Cardinality({q \in Procs : Active(q) /\ loc[q].op = "resolve" /\ loc[q].tx = t})

\* update(update_payload).eq('id', transaction_id): the response's data is
\* empty when no row has the id.
UpdateStatus(p, l) ==
    IF l.tx \in DOMAIN transactions
    THEN /\ transactions' = [transactions EXCEPT ![l.tx].status = l.status]
         /\ Done(p, l, "ok")
    ELSE /\ UNCHANGED transactions
         /\ Done(p, l, "error")

\* What a read of one row (select ... single().execute()) can do: return the
\* row, return a response without data, or raise.
FetchOutcomes == {"ok", "empty", "raise"}

\* What a write can do: succeed or raise.
WriteOutcomes == {"ok", "raise"}

\* For completed the status update; for rejected and failed the read of the
\* transaction, where single() raises when no row has the id.  A read that
\* returns no data is logged and the handler goes on to the status update.
ResolveStart(p, t, s) ==
    /\ pc[p] = "idle"
    /\ \E out \in FetchOutcomes :
       LET known == t \in DOMAIN transactions
           l == [NoLoc EXCEPT !.op = "resolve", !.tx = t, !.status = s,
                     !.g_ntx = Len(transactions), !.g_all = user_wallets,
                     !.g_status = IF known THEN transactions[t].status ELSE "none",
                     !.g_wallet = IF known THEN user_wallets[transactions[t].user_id]
                                  ELSE NewWallet,
                     !.user = IF known THEN transactions[t].user_id ELSE NoUser]
       IN  IF s \notin Statuses
           THEN out = "ok" /\ Done(p, l, "invalid") /\ UNCHANGED transactions
           ELSE IF ~NeedsRefund(s)
           THEN out = "ok" /\ UpdateStatus(p, l)
           ELSE /\ UNCHANGED transactions
                /\ known => refunds[t] + ResolvesInFlight(t) < MaxResolves
                /\ CASE ~known ->
                          out = "ok" /\ Done(p, [l EXCEPT !.fail = "lookup"], "error")
                     [] known /\ out = "ok" ->
                          Goto(p, [l EXCEPT !.amount = transactions[t].amount], "r_wallet")
                     [] known /\ out = "empty" ->
                          Goto(p, [l EXCEPT !.fail = "lookup"], "r_update")
                     [] OTHER ->
                          Done(p, [l EXCEPT !.fail = "lookup"], "error")
    /\ UNCHANGED <<user_wallets, profiles, manual_payments, commissions, today,
                   incrCount, okVerify, utrPhase, gwIncr, refunds>>

\* select('balance') of the transaction's user.  A read that returns no data
\* is logged and the handler goes on to the status update.
ResolveWallet(p) ==
    /\ pc[p] = "r_wallet"
    /\ \E out \in FetchOutcomes :
          LET l == loc[p]
          IN  CASE out = "ok" ->
                     Goto(p, [l EXCEPT !.cur = user_wallets[l.user].balance], "r_credit")
                [] out = "empty" ->
                     Goto(p, [l EXCEPT !.fail = "wallet"], "r_update")
                [] OTHER ->
                     Done(p, [l EXCEPT !.fail = "wallet"], "error")
    /\ UNCHANGED <<store, today, incrCount, okVerify, utrPhase, gwIncr, refunds>>

\* update({'balance': refunded_balance}); when it raises, the handler's
\* except clause answers 500.
ResolveRefund(p) ==
    /\ pc[p] = "r_credit"
    /\ \E out \in WriteOutcomes :
          LET l == loc[p]
          IN  IF out = "ok"
              THEN /\ user_wallets' = [user_wallets EXCEPT
                                          ![l.user].balance = l.cur + l.amount]
                   /\ refunds' = [refunds EXCEPT ![l.tx] = @ + 1]
                   /\ Goto(p, l, "r_update")
              ELSE /\ UNCHANGED <<user_wallets, refunds>>
                   /\ Done(p, [l EXCEPT !.fail = "credit"], "error")
    /\ UNCHANGED <<profiles, manual_payments, transactions, commissions, today,
                   incrCount, okVerify, utrPhase, gwIncr>>

ResolveUpdate(p) ==
    /\ pc[p] = "r_update"
    /\ UpdateStatus(p, loc[p])
    /\ UNCHANGED <<user_wallets, profiles, manual_payments, commissions, today,
                   incrCount, okVerify, utrPhase, gwIncr, refunds>>

-----------------------------------------------------------------------------
(* claim_referral_bonus *)

\* new_pending = current_pending + 10.0, in paise: what create_supabase_user
\* adds to the referrer's pending_referral_bonus at a sign-up.
SignupBonus == 1000

\* create_supabase_user, for a new user who gave the referral code of r: the
\* read of r's pending_referral_bonus.  The new user's own profile and wallet
\* are rows no other handler of the model reads.
SignupBonusRead(p, r) ==
    /\ pc[p] = "idle"
    /\ user_wallets[r].pending_referral_bonus < MaxSignups * SignupBonus
    /\ Goto(p, [NoLoc EXCEPT !.op = "signup", !.user = r, !.read = user_wallets[r],
                             !.g_wallet = user_wallets[r]], "s_update")
    /\ UNCHANGED <<store, today, incrCount, okVerify, utrPhase, gwIncr, refunds>>

\* update({'pending_referral_bonus': new_pending})
SignupBonusWrite(p) ==
    /\ pc[p] = "s_update"
    /\ LET l == loc[p]
       IN  /\ user_wallets' = [user_wallets EXCEPT ![l.user].pending_referral_bonus =
                                  l.read.pending_referral_bonus + SignupBonus]
           /\ Done(p, l, "ok")
    /\ UNCHANGED <<profiles, manual_payments, transactions, commissions, today,
                   incrCount, okVerify, utrPhase, gwIncr, refunds>>

\* Mutant: only a negative pending bonus is refused.
NoPendingBonusIfNegative(pending_bonus) == pending_bonus < 0

\* pending_bonus <= 0
NoPendingBonus(pending_bonus) == pending_bonus <= 0

\* Mutant: the update leaves order_income out.
ClaimedWalletNoOrderIncome(w, read) ==
    [w EXCEPT !.balance = read.balance + read.pending_referral_bonus,
              !.pending_referral_bonus = 0,
              !.total_referral_earnings =
                  read.total_referral_earnings + read.pending_referral_bonus]

\* Mutant: the update adds the bonus to what the row holds when it is written.
ClaimedWalletAdded(w, read) ==
    [w EXCEPT !.balance = @ + read.pending_referral_bonus,
              !.pending_referral_bonus = 0,
              !.total_referral_earnings = @ + read.pending_referral_bonus,
              !.order_income = @ + read.pending_referral_bonus]

\* The row w after update({balance, pending_referral_bonus,
\* total_referral_earnings, order_income}) with the values computed from the
\* wallet the handler read.
ClaimedWallet(w, read) ==
    [w EXCEPT !.balance = read.balance + read.pending_referral_bonus,
              !.pending_referral_bonus = 0,
              !.total_referral_earnings =
                  read.total_referral_earnings + read.pending_referral_bonus,
              !.order_income = read.order_income + read.pending_referral_bonus]

\* The read of the wallet and the check of the pending bonus.
ClaimStart(p, u) ==
    /\ pc[p] = "idle"
    /\ Len(transactions) + Cardinality(Inserting) < MaxTx
    /\ LET l == [NoLoc EXCEPT !.op = "claim", !.user = u, !.read = user_wallets[u],
                             !.g_wallet = user_wallets[u], !.g_ntx = Len(transactions)]
       IN  IF NoPendingBonus(l.read.pending_referral_bonus)
           THEN Done(p, l, "no_bonus")
           ELSE Goto(p, l, "c_update")
    /\ UNCHANGED <<store, today, incrCount, okVerify, utrPhase, gwIncr, refunds>>

ClaimUpdate(p) ==
    /\ pc[p] = "c_update"
    /\ LET l == loc[p]
       IN  /\ user_wallets' = [user_wallets EXCEPT
                                  ![l.user] = ClaimedWallet(@, l.read)]
           /\ Goto(p, l, "c_record")
    /\ UNCHANGED <<profiles, manual_payments, transactions, commissions, today,
                   incrCount, okVerify, utrPhase, gwIncr, refunds>>

\* The insert of the bonus transaction, then the success response.
ClaimRecord(p) ==
    /\ pc[p] = "c_record"
    /\ LET l == loc[p]
       IN  /\ transactions' = Append(transactions,
                  [user_id |-> l.user, amount |-> l.read.pending_referral_bonus,
                   fee |-> 0, type |-> "bonus_referral_signup", status |-> "completed",
                   payment_gateway_id |-> 0, order_id |-> 0, day |-> today])
           /\ Done(p, [l EXCEPT !.tx = Len(transactions) + 1], "ok")
    /\ UNCHANGED <<user_wallets, profiles, manual_payments, commissions, today,
                   incrCount, okVerify, utrPhase, gwIncr, refunds>>

-----------------------------------------------------------------------------
\* The response has been sent; the slot is free again.
Return(p) ==
    /\ pc[p] = "done"
    /\ pc' = [pc EXCEPT ![p] = "idle"]
    /\ loc' = [loc EXCEPT ![p] = NoLoc]
    /\ UNCHANGED <<store, today, incrCount, okVerify, utrPhase, gwIncr, refunds>>

-----------------------------------------------------------------------------
(* The manual payment path *)

Init ==
    /\ user_wallets = [u \in Users |-> NewWallet]
    /\ profiles = [u \in Users |-> [referrer_id |-> IF u = "u2" THEN "u1" ELSE NoUser]]
    /\ manual_payments = <<>>
    /\ transactions = <<>>
    /\ commissions = <<>>
    /\ today = 0
    /\ pc = [p \in Procs |-> "idle"]
    /\ loc = [p \in Procs |-> NoLoc]
    /\ incrCount = [utr \in UTRs |-> 0]
    /\ okVerify = [utr \in UTRs |-> FALSE]
    /\ utrPhase = [utr \in UTRs |-> "open"]
    /\ gwIncr = [o \in 1..MaxOrders |-> 0]
    /\ refunds = [t \in 1..MaxTx |-> 0]

ManualStep(p, amounts, outs) ==
    \/ \E u \in Users, a \in amounts, utr \in UTRs \cup {BadUTR} :
          ConfirmManualPayment(p, u, a, utr)
    \/ \E utr \in UTRs : VerifyFetch(p, utr)
    \/ VerifyRow(p)
    \/ VerifyCommission(p, outs)
    \/ VerifyCommissionLog(p, outs)
    \/ VerifyIncrement(p, outs)
    \/ \E utr \in UTRs : RejectFetch(p, utr)
    \/ RejectRow(p)
    \/ Return(p)

GatewayStep(p, amounts, outs) ==
    \/ \E u \in Users, a \in amounts : CreateRazorpayOrder(p, u, a)
    \/ \E o \in 1..MaxOrders, u \in Users, a \in amounts, sig_ok \in BOOLEAN :
          GatewayVerifyStart(p, o, u, a, sig_ok, outs)
    \/ GatewayCommissionLog(p, outs)
    \/ GatewayIncrement(p, outs)
    \/ GatewayUpdate(p, outs)

WithdrawRequestStep(p) ==
    \/ \E u \in Users, a \in WithdrawAmounts \cup {0} : WithdrawStart(p, u, a)
    \/ WithdrawInvestment(p)
    \/ WithdrawWallet(p)
    \/ WithdrawDebit(p)
    \/ WithdrawRecord(p)
    \/ WithdrawCompensate(p)

WithdrawalStep(p) ==
    \/ WithdrawRequestStep(p)
    \/ \E t \in 1..MaxTx, s \in Statuses \cup {"bogus"} : ResolveStart(p, t, s)
    \/ ResolveWallet(p)
    \/ ResolveRefund(p)
    \/ ResolveUpdate(p)

\* A state the manual payment path reaches: u2 and u1 have both submitted
\* UTR 1, and one verification has credited u2's row (amount a, commission to
\* u1, the referrer) and completed u1's row.
InitWithdrawal ==
    \E a \in RechargeAmounts :
        /\ user_wallets = [u \in Users |->
               IF u = "u2" THEN [NewWallet EXCEPT !.recharged_amount = a]
               ELSE [NewWallet EXCEPT !.order_income = Commission(a),
                                      !.total_referral_earnings = Commission(a)]]
        /\ profiles = [u \in Users |-> [referrer_id |-> IF u = "u2" THEN "u1" ELSE NoUser]]
        /\ manual_payments =
               <<[user_id |-> "u2", amount |-> a, utr_number |-> 1,
                  status |-> "completed", is_credited |-> TRUE],
                 [user_id |-> "u1", amount |-> a, utr_number |-> 1,
                  status |-> "completed", is_credited |-> FALSE]>>
        /\ transactions = <<>>
        /\ commissions = <<CommissionLog("u1", "u2", a)>>
        /\ today = 0
        /\ pc = [p \in Procs |-> "idle"]
        /\ loc = [p \in Procs |-> NoLoc]
        /\ incrCount = [utr \in UTRs |-> IF utr = 1 THEN 1 ELSE 0]
        /\ okVerify = [utr \in UTRs |-> utr = 1]
        /\ utrPhase = [utr \in UTRs |-> IF utr = 1 THEN "read" ELSE "open"]
        /\ gwIncr = [o \in 1..MaxOrders |-> 0]
        /\ refunds = [t \in 1..MaxTx |-> 0]

\* Manual payment requests handled one at a time, in slot 1.
NextManualSequential == ManualStep(1, RechargeAmounts, NoFailure)

SpecManualSequential == Init /\ [][NextManualSequential]_vars

\* Manual payment requests of any amount the submission accepts, handled one
\* at a time, in slot 1.
NextManualSignedSequential == ManualStep(1, SignedAmounts, NoFailure)

SpecManualSignedSequential == Init /\ [][NextManualSignedSequential]_vars

\* Manual payment requests handled one at a time, in slot 1, over a store
\* whose rpc increment_recharged_amount may raise.
NextManualFailingSequential == ManualStep(1, OneAmount, IncrementOutcomes)

SpecManualFailingSequential == Init /\ [][NextManualFailingSequential]_vars

\* Manual payment requests handled concurrently.
NextManual == \E p \in Procs : ManualStep(p, OneAmount, NoFailure)

SpecManual == Init /\ [][NextManual]_vars

\* Gateway requests handled concurrently.
NextGateway == \E p \in Procs : GatewayStep(p, RechargeAmounts, NoFailure) \/ Return(p)

SpecGateway == Init /\ [][NextGateway]_vars

\* Withdrawal requests and resolutions handled one at a time, in slot 1.
NextWithdrawalSequential == WithdrawalStep(1) \/ Return(1) \/ NextDay

SpecWithdrawalSequential == InitWithdrawal /\ [][NextWithdrawalSequential]_vars

\* Withdrawal requests and resolutions handled concurrently.
NextWithdrawal == (\E p \in Procs : WithdrawalStep(p) \/ Return(p)) \/ NextDay

SpecWithdrawal == InitWithdrawal /\ [][NextWithdrawal]_vars

\* Withdrawal requests of one day handled concurrently.
NextWithdrawalRequests == \E p \in Procs : WithdrawRequestStep(p) \/ Return(p)

SpecWithdrawalRequests == InitWithdrawal /\ [][NextWithdrawalRequests]_vars

ClaimStep(p) ==
    \/ \E u \in Users : ClaimStart(p, u)
    \/ ClaimUpdate(p)
    \/ ClaimRecord(p)

SignupStep(p) ==
    \/ \E r \in Users : SignupBonusRead(p, r)
    \/ SignupBonusWrite(p)

\* The state InitWithdrawal describes, with the sign-up bonus of u2's sign-up
\* pending in the wallet of u1, the referrer.
InitBonus ==
    \E a \in RechargeAmounts :
        /\ user_wallets = [u \in Users |->
               IF u = "u2" THEN [NewWallet EXCEPT !.recharged_amount = a]
               ELSE [NewWallet EXCEPT !.order_income = Commission(a),
                                      !.total_referral_earnings = Commission(a),
                                      !.pending_referral_bonus = SignupBonus]]
        /\ profiles = [u \in Users |-> [referrer_id |-> IF u = "u2" THEN "u1" ELSE NoUser]]
        /\ manual_payments =
               <<[user_id |-> "u2", amount |-> a, utr_number |-> 1,
                  status |-> "completed", is_credited |-> TRUE],
                 [user_id |-> "u1", amount |-> a, utr_number |-> 1,
                  status |-> "completed", is_credited |-> FALSE]>>
        /\ transactions = <<>>
        /\ commissions = <<CommissionLog("u1", "u2", a)>>
        /\ today = 0
        /\ pc = [p \in Procs |-> "idle"]
        /\ loc = [p \in Procs |-> NoLoc]
        /\ incrCount = [utr \in UTRs |-> IF utr = 1 THEN 1 ELSE 0]
        /\ okVerify = [utr \in UTRs |-> utr = 1]
        /\ utrPhase = [utr \in UTRs |-> IF utr = 1 THEN "read" ELSE "open"]
        /\ gwIncr = [o \in 1..MaxOrders |-> 0]
        /\ refunds = [t \in 1..MaxTx |-> 0]

\* Sign-ups and bonus claims handled one at a time, in slot 1.
NextBonusSequential == SignupStep(1) \/ ClaimStep(1) \/ Return(1)

SpecBonusSequential == InitBonus /\ [][NextBonusSequential]_vars

\* Bonus claims handled concurrently.
NextBonus == \E p \in Procs : ClaimStep(p) \/ Return(p)

SpecBonus == InitBonus /\ [][NextBonus]_vars

\* States the manual payment path reaches: u2 has submitted UTR 1 and one
\* verification has credited it (commission to u1, the referrer); u1 has
\* either submitted the same UTR before that verification, or no payment.
InitLedger ==
    \E a \in OneAmount, n \in 1..2 :
        /\ user_wallets = [u \in Users |->
               IF u = "u2" THEN [NewWallet EXCEPT !.recharged_amount = a]
               ELSE [NewWallet EXCEPT !.order_income = Commission(a),
                                      !.total_referral_earnings = Commission(a)]]
        /\ profiles = [u \in Users |-> [referrer_id |-> IF u = "u2" THEN "u1" ELSE NoUser]]
        /\ manual_payments = SubSeq(
               <<[user_id |-> "u2", amount |-> a, utr_number |-> 1,
                  status |-> "completed", is_credited |-> TRUE],
                 [user_id |-> "u1", amount |-> a, utr_number |-> 1,
                  status |-> "completed", is_credited |-> FALSE]>>, 1, n)
        /\ transactions = <<>>
        /\ commissions = <<CommissionLog("u1", "u2", a)>>
        /\ today = 0
        /\ pc = [p \in Procs |-> "idle"]
        /\ loc = [p \in Procs |-> NoLoc]
        /\ incrCount = [utr \in UTRs |-> IF utr = 1 THEN 1 ELSE 0]
        /\ okVerify = [utr \in UTRs |-> utr = 1]
        /\ utrPhase = [utr \in UTRs |-> IF utr = 1 THEN "read" ELSE "open"]
        /\ gwIncr = [o \in 1..MaxOrders |-> 0]
        /\ refunds = [t \in 1..MaxTx |-> 0]

\* Manual and gateway recharges handled one at a time, in slot 1, over a
\* store whose cascade calls may fail.
\* Payment records of both sources (confirmed UTR rows and gateway orders)
\* share one budget, so that runs mixing the two sources stay bounded.
RechargeBudget == Len(manual_payments') + Len(transactions') < MaxPayments

NextRechargeSequential ==
    \/ ManualStep(1, OneAmount, CascadeOutcomes) /\ RechargeBudget
    \/ GatewayStep(1, OneAmount, CascadeOutcomes) /\ RechargeBudget

SpecRechargeSequential == Init /\ [][NextRechargeSequential]_vars

\* Gateway recharges and withdrawal requests of one day, handled one at a
\* time, in slot 1.
NextLedgerSequential ==
    GatewayStep(1, OneAmount, NoFailure) \/ WithdrawRequestStep(1) \/ Return(1)

SpecLedgerSequential == InitLedger /\ [][NextLedgerSequential]_vars

\* The gateway requests that run the commission cascade for a referred user:
\* the verifications, with a valid signature, of the orders created.
GatewayCascadeStep(p) ==
    \/ \E o \in 1..MaxOrders, u \in Users, a \in RechargeAmounts :
          ReferrerOf(u) # NoUser /\ GatewayVerifyStart(p, o, u, a, TRUE, NoFailure)
    \/ GatewayCommissionLog(p, NoFailure)
    \/ GatewayIncrement(p, NoFailure)
    \/ GatewayUpdate(p, NoFailure)
    \/ Return(p)

\* The verifications of a submitted UTR.
ManualCascadeStep(p) ==
    \/ \E utr \in UTRs : VerifyFetch(p, utr)
    \/ VerifyRow(p)
    \/ VerifyCommission(p, NoFailure)
    \/ VerifyCommissionLog(p, NoFailure)
    \/ VerifyIncrement(p, NoFailure)
    \/ Return(p)

\* The state after one submission and one order: u2, whom u1 referred, has
\* submitted UTR 1 and has created gateway order 1.
InitCascade ==
    \E a \in OneAmount :
        /\ user_wallets = [u \in Users |-> NewWallet]
        /\ profiles = [u \in Users |-> [referrer_id |-> IF u = "u2" THEN "u1" ELSE NoUser]]
        /\ manual_payments =
               <<[user_id |-> "u2", amount |-> a, utr_number |-> 1,
                  status |-> "pending", is_credited |-> FALSE]>>
        /\ transactions =
               <<[user_id |-> "u2", amount |-> a, fee |-> 0, type |-> "recharge",
                  status |-> "pending", payment_gateway_id |-> 1, order_id |-> 1,
                  day |-> 0]>>
        /\ commissions = <<>>
        /\ today = 0
        /\ pc = [p \in Procs |-> "idle"]
        /\ loc = [p \in Procs |-> NoLoc]
        /\ incrCount = [utr \in UTRs |-> 0]
        /\ okVerify = [utr \in UTRs |-> FALSE]
        /\ utrPhase = [utr \in UTRs |-> "open"]
        /\ gwIncr = [o \in 1..MaxOrders |-> 0]
        /\ refunds = [t \in 1..MaxTx |-> 0]

\* The cascades that have called the commission rpc: those logged and those
\* about to log.  At most MaxGwVerifies of them run in one behaviour.
CascadeBudget ==
    Len(commissions') + Cardinality({q \in Procs : pc'[q] \in {"g_log", "v_log"}})
        <= MaxGwVerifies

\* Commission cascades handled concurrently: manual verifications in slot 1,
\* gateway verifications in the other slots.
NextCascade ==
    \/ ManualCascadeStep(1) /\ CascadeBudget
    \/ \E p \in Procs \ {1} : GatewayCascadeStep(p) /\ CascadeBudget

SpecCascade == InitCascade /\ [][NextCascade]_vars

\* Bonus claims in slot 1, handled concurrently with the gateway recharges
\* of the other slots, whose cascades credit the referrer's wallet.
NextReferrerWallet ==
    \/ ClaimStep(1) \/ Return(1)
    \/ \E p \in Procs \ {1} : GatewayStep(p, OneAmount, NoFailure) \/ Return(p)

SpecReferrerWallet == InitBonus /\ [][NextReferrerWallet]_vars

\* What the store calls of a gateway verification after the cascade can do:
\* succeed, or the wallet rpc or the update of the transaction raises.
GatewayOutcomes == {"ok", "incr_raises", "update_raises"}

\* Gateway requests handled one at a time, in slot 1, over a store whose
\* wallet rpc and transaction update may raise.  A verification that fails
\* after its cascade has still paid the commission, so the cascades of one
\* behaviour are bounded by CascadeBudget.
NextGatewayFailingSequential ==
    \/ GatewayStep(1, OneAmount, GatewayOutcomes) /\ CascadeBudget
    \/ Return(1)

SpecGatewayFailingSequential == Init /\ [][NextGatewayFailingSequential]_vars

\* Sign-ups and bonus claims handled concurrently.  The slot of a finished
\* sign-up keeps its record, so that the sign-ups of a behaviour can be
\* counted; the slot of a finished claim is free again.
NextBonusConcurrent ==
    \E p \in Procs :
        \/ SignupStep(p)
        \/ ClaimStep(p)
        \/ loc[p].op = "claim" /\ Return(p)

SpecBonusConcurrent == InitBonus /\ [][NextBonusConcurrent]_vars

-----------------------------------------------------------------------------
(* Claims *)

AllIdle == \A p \in Procs : pc[p] = "idle"

VerifyInFlight(utr) ==
    \E p \in Procs : Active(p) /\ loc[p].op = "verify" /\ loc[p].utr = utr

\* C1: when every submission so far is of one UTR, by one user, for one
\* amount A, and submissions and verifications have been handled one after
\* the other, then once a verification has succeeded the user's
\* recharged_amount has increased (from 0) by exactly A.
C1_RechargedOncePerUTR ==
    \A utr \in UTRs, u \in Users, a \in RechargeAmounts :
        ( /\ AllIdle
          /\ okVerify[utr]
          /\ \A id \in DOMAIN manual_payments :
                /\ manual_payments[id].utr_number = utr
                /\ manual_payments[id].user_id = u
                /\ manual_payments[id].amount = a )
        => user_wallets[u].recharged_amount = a

\* C2: when no submission of a UTR arrives after a verification has read its
\* rows, then however the store calls of concurrent verifications of that UTR
\* interleave, increment_recharged_amount is executed at most once for it,
\* and exactly once when a verification has succeeded and none is in flight.
C2_ConcurrentVerifyIncrementsOnce ==
    \A utr \in UTRs :
        utrPhase[utr] # "late" =>
            /\ incrCount[utr] <= 1
            /\ (okVerify[utr] /\ ~VerifyInFlight(utr)) => incrCount[utr] = 1

\* C3: verify_razorpay_payment requests with a valid signature, however
\* many and however interleaved, increment recharged_amount exactly once for
\* one order: never twice, and once when such a request has succeeded.
C3_GatewayIncrementsOncePerOrder ==
    /\ \A o \in 1..MaxOrders : gwIncr[o] <= 1
    /\ \A p \in Procs :
          (pc[p] = "done" /\ loc[p].op = "gw_verify" /\ loc[p].res = "ok")
          => gwIncr[loc[p].order] = 1

\* C4: in every reachable state, at most one manual_payments row of a UTR
\* has is_credited = true.
C4_AtMostOneCreditedPerUTR ==
    \A utr \in UTRs : Cardinality(CreditedIds(utr)) <= 1

\* C5: after a successful verification of a UTR that had k >= 1 pending rows
\* and no credited row, handled with no other request in between, all k rows
\* are completed, no row of the UTR is pending, and exactly one row of the
\* UTR has is_credited = true, one of the k.
C5_VerifyCompletesAllCreditsOne ==
    \A p \in Procs :
        (pc[p] = "done" /\ loc[p].op = "verify" /\ loc[p].res = "ok" /\ ~loc[p].g_credit)
        => LET l == loc[p]
               ids == {l.rows[k].id : k \in DOMAIN l.rows}
           IN  /\ Len(l.rows) >= 1
               /\ \A id \in ids : manual_payments[id].status = "completed"
               /\ PendingIds(l.utr) = {}
               /\ Cardinality(CreditedIds(l.utr)) = 1
               /\ CreditedIds(l.utr) \subseteq ids

\* Witness of C5: a verification of three pending rows of one UTR succeeded.
C5_Witness ==
    \E p \in Procs :
        /\ pc[p] = "done" /\ loc[p].op = "verify" /\ loc[p].res = "ok"
        /\ ~loc[p].g_credit
        /\ Len(loc[p].rows) = 3

\* C6: when a pending withdrawal is resolved to rejected or failed, with no
\* other request in between, the user's order_income is increased by the
\* transaction's amount, back to its value before the withdrawal request.
C6_RejectionRestoresOrderIncome ==
    \A p \in Procs :
        ( /\ pc[p] = "done" /\ loc[p].op = "resolve" /\ loc[p].res = "ok"
          /\ loc[p].status \in {"rejected", "failed"}
          /\ loc[p].g_status = "pending"
          /\ transactions[loc[p].tx].type = "withdrawal" )
        => user_wallets[loc[p].user].order_income
               = loc[p].g_wallet.order_income + transactions[loc[p].tx].amount

\* C7: resolving a transaction that is already completed, rejected or failed
\* changes neither the wallet of its user nor the transaction's status, at
\* any step of the request (so a second rejection credits nothing).
C7_ResolvingTerminalChangesNothing ==
    \A p \in Procs :
        (loc[p].op = "resolve" /\ loc[p].g_status \in Statuses)
        => /\ user_wallets[loc[p].user] = loc[p].g_wallet
           /\ transactions[loc[p].tx].status = loc[p].g_status

\* C8: a withdrawal transaction is created pending, and once its status is
\* completed, rejected or failed no step changes that status.
C8_WithdrawalStatusFinal ==
    [][ /\ \A t \in DOMAIN transactions :
              (transactions[t].type = "withdrawal" /\ transactions[t].status \in Statuses)
              => transactions'[t].status = transactions[t].status
        /\ \A t \in (DOMAIN transactions') \ (DOMAIN transactions) :
              transactions'[t].type = "withdrawal" => transactions'[t].status = "pending"
      ]_vars

\* C9: a withdrawal request whose amount is greater than the user's
\* order_income at the time of the request never reaches the debit, is
\* answered with a rejection, leaves the wallet as it was and records no
\* transaction.
C9_InsufficientIncomeRejected ==
    \A p \in Procs :
        (loc[p].op = "withdraw" /\ loc[p].amount > loc[p].g_wallet.order_income)
        => /\ pc[p] \notin {"w_debit", "w_record"}
           /\ pc[p] = "done" => loc[p].res \in {"limit", "no_investment", "insufficient"}
           /\ user_wallets[loc[p].user] = loc[p].g_wallet
           /\ Len(transactions) = loc[p].g_ntx

\* Witness of C9: a request for more than the wallet's positive order_income
\* was rejected at the sufficiency check.
C9_Witness ==
    \E p \in Procs :
        /\ pc[p] = "done" /\ loc[p].op = "withdraw" /\ loc[p].res = "insufficient"
        /\ loc[p].g_wallet.order_income > 0
        /\ loc[p].amount > loc[p].g_wallet.order_income

\* C10: a successful withdrawal request of amount a, handled with no other
\* request in between, decreases order_income by exactly a and changes no
\* other wallet field, and records exactly one transaction: a withdrawal,
\* pending, of amount a, whose fee is 12% of a to the nearest paisa (exactly
\* 12% of a when that is a whole number of paise).
C10_WithdrawalDebitsAmountOnly ==
    \A p \in Procs :
        (pc[p] = "done" /\ loc[p].op = "withdraw" /\ loc[p].res = "ok")
        => LET l == loc[p]
               t == transactions[l.tx]
           IN  /\ user_wallets[l.user] = [l.g_wallet EXCEPT !.order_income = @ - l.amount]
               /\ Len(transactions) = l.g_ntx + 1
               /\ l.tx = Len(transactions)
               /\ t.user_id = l.user /\ t.type = "withdrawal" /\ t.status = "pending"
               /\ t.amount = l.amount
               /\ 100 * t.fee - 12 * l.amount \in -50..50
               /\ (12 * l.amount) % 100 = 0 => 100 * t.fee = 12 * l.amount

\* Witness of C10: the whole order_income was withdrawn, leaving 0, and the
\* fee recorded is 12% of it.
C10_Witness ==
    \E p \in Procs :
        /\ pc[p] = "done" /\ loc[p].op = "withdraw" /\ loc[p].res = "ok"
        /\ loc[p].amount = loc[p].g_wallet.order_income
        /\ user_wallets[loc[p].user].order_income = 0
        /\ 100 * transactions[loc[p].tx].fee = 12 * loc[p].amount

\* C11: a withdrawal request of a valid amount by a user who already has 2
\* withdrawal transactions created in the current day is answered with the
\* limit error at its first store call, leaves the user's wallet as it was
\* and records no transaction.
C11_DailyLimitRejected ==
    \A p \in Procs :
        (loc[p].op = "withdraw" /\ loc[p].amount > 0 /\ loc[p].g_count >= 2)
        => /\ pc[p] = "done"
           /\ loc[p].res = "limit"
           /\ user_wallets[loc[p].user] = loc[p].g_wallet
           /\ Len(transactions) = loc[p].g_ntx

\* Witness of C11: a third request on the day of two recorded withdrawals,
\* by a user whose order_income would cover it, was rejected with the limit
\* error.
C11_Witness ==
    \E p \in Procs :
        /\ pc[p] = "done" /\ loc[p].op = "withdraw" /\ loc[p].res = "limit"
        /\ loc[p].g_count = 2
        /\ loc[p].amount <= loc[p].g_wallet.order_income
        /\ \A t \in DOMAIN transactions : transactions[t].day = today

\* u has a recharge transaction that verify_razorpay_payment completed.
HasCompletedRecharge(u) ==
    \E t \in DOMAIN transactions :
        /\ transactions[t].user_id = u
        /\ transactions[t].type = "recharge"
        /\ transactions[t].status = "completed"
        /\ transactions[t].payment_gateway_id = PaymentId(transactions[t].order_id)

\* C12: a withdrawal request by a user who has a completed payment of either
\* source, a completed gateway recharge or a completed manual payment, is
\* not rejected at the eligibility gate; a request by a user with no
\* completed payment of any source that reaches the gate is rejected there
\* and leaves the wallet as it was.
C12_EligibleWithAnyCompletedPayment ==
    \A p \in Procs :
        (pc[p] = "done" /\ loc[p].op = "withdraw")
        => LET u == loc[p].user
           IN  /\ (HasInvestment(u) \/ HasCompletedRecharge(u))
                  => loc[p].res # "no_investment"
               /\ (~HasInvestment(u) /\ ~HasCompletedRecharge(u)
                      /\ loc[p].res \notin {"invalid", "limit"})
                  => /\ loc[p].res = "no_investment"
                     /\ user_wallets[u] = loc[p].g_wallet

\* C13: when the insert of the pending withdrawal transaction fails after the
\* debit, by returning no row or by raising, then with no other request in
\* between the user's order_income is back at its value before the request
\* when the error is returned.
C13_RecordFailureRestoresOrderIncome ==
    \A p \in Procs :
        ( /\ pc[p] = "done" /\ loc[p].op = "withdraw"
          /\ loc[p].res \in {"record_failed", "record_raised"} )
        => user_wallets[loc[p].user].order_income = loc[p].g_wallet.order_income

\* The request of l credits a recharge: every gateway verification with a
\* valid signature does, and a manual verification that selected a record
\* with is_credited = false.
Credits(l) ==
    \/ l.op = "gw_verify" /\ l.res # "bad_signature"
    \/ l.op = "verify" /\ \E k \in DOMAIN l.rows : ~l.rows[k].is_credited

\* The user and the amount the request of l credits: those of the request on
\* the gateway path, those of the first selected record with is_credited =
\* false on the manual path.
CreditOf(l) ==
    IF l.op = "gw_verify"
    THEN [user |-> l.user, amount |-> l.amount]
    ELSE LET k == CHOOSE k \in DOMAIN l.rows :
                     /\ ~l.rows[k].is_credited
                     /\ \A j \in 1..(k - 1) : l.rows[j].is_credited
         IN  [user |-> l.rows[k].user_id, amount |-> l.rows[k].amount]

\* C14: when a manual or a gateway verification, handled with no other
\* request in between and with every store call of the cascade succeeding,
\* has credited a recharge of amount A to a user who has a referrer, the
\* referrer's order_income and total_referral_earnings have each increased by
\* exactly A/10, and exactly one row was added to commissions, the log of
\* that recharge.
C14_CommissionTenthOneLog ==
    \A p \in Procs :
        ( /\ pc[p] = "done" /\ loc[p].res = "ok" /\ Credits(loc[p])
          /\ profiles[CreditOf(loc[p]).user].referrer_id # NoUser
          /\ loc[p].casc = "ok" )
        => LET l == loc[p]
               c == CreditOf(l)
               r == profiles[c.user].referrer_id
               log == commissions[Len(commissions)]
           IN  /\ 10 * (user_wallets[r].order_income - l.g_all[r].order_income) = c.amount
               /\ 10 * (user_wallets[r].total_referral_earnings
                          - l.g_all[r].total_referral_earnings) = c.amount
               /\ Len(commissions) = l.g_ncomm + 1
               /\ log.referrer_id = r /\ log.referred_user_id = c.user
               /\ log.investment_amount = c.amount
               /\ 10 * log.commission_amount = c.amount

\* Witness of C14: a manual verification credited a referred user and paid
\* the commission, after an earlier recharge had already paid one.
C14_Witness ==
    \E p \in Procs :
        /\ pc[p] = "done" /\ loc[p].op = "verify" /\ loc[p].res = "ok"
        /\ Credits(loc[p]) /\ loc[p].casc = "ok"
        /\ profiles[CreditOf(loc[p]).user].referrer_id # NoUser
        /\ loc[p].g_ncomm >= 1
        /\ \E k \in DOMAIN commissions : commissions[k].referred_user_id = "u2"
        /\ gwIncr[1] >= 1

\* C15: no row of commissions has a user without referrer as
\* referred_user_id, and a manual or gateway verification that credits a
\* user without referrer, handled with no other request in between, changes
\* no wallet but that user's.
C15_NoReferrerNoCommission ==
    /\ \A k \in DOMAIN commissions :
          profiles[commissions[k].referred_user_id].referrer_id # NoUser
    /\ \A p \in Procs :
          ( /\ loc[p].op \in {"verify", "gw_verify"} /\ Credits(loc[p])
            /\ profiles[CreditOf(loc[p]).user].referrer_id = NoUser )
          => \A v \in Users \ {CreditOf(loc[p]).user} : user_wallets[v] = loc[p].g_all[v]

\* Witness of C15: a user without referrer has been credited on both paths,
\* the second time just now.
C15_Witness ==
    \E p \in Procs :
        /\ pc[p] = "done" /\ loc[p].res = "ok" /\ Credits(loc[p])
        /\ profiles[CreditOf(loc[p]).user].referrer_id = NoUser
        /\ user_wallets[CreditOf(loc[p]).user].recharged_amount
              = loc[p].g_all[CreditOf(loc[p]).user].recharged_amount + CreditOf(loc[p]).amount
        /\ loc[p].g_all[CreditOf(loc[p]).user].recharged_amount > 0
        /\ gwIncr[1] >= 1 /\ incrCount[1] >= 1

\* C16: when a store call of the commission cascade has failed in a manual
\* or gateway verification (the referrer lookup, the commission rpc or the
\* insert of the commission log), the handler still goes on to the wallet
\* increment: with no other request in between, the credited user's
\* recharged_amount is increased by the amount and the verification returns
\* success.
C16_CascadeFailureDoesNotBlockCredit ==
    \A p \in Procs :
        ( /\ loc[p].op \in {"verify", "gw_verify"}
          /\ loc[p].casc \in {"lookup_raises", "rpc_raises", "log_raises"} )
        => LET c == CreditOf(loc[p])
           IN  /\ pc[p] = "done" => loc[p].res = "ok"
               /\ pc[p] \notin {"v_incr", "g_incr"}
                  => user_wallets[c.user].recharged_amount
                        = loc[p].g_all[c.user].recharged_amount + c.amount

\* Witness of C16: a verification returned success after the commission rpc
\* had raised.
C16_Witness ==
    \E p \in Procs :
        /\ pc[p] = "done" /\ loc[p].res = "ok" /\ loc[p].casc = "rpc_raises"
        /\ user_wallets[CreditOf(loc[p]).user].recharged_amount
              = loc[p].g_all[CreditOf(loc[p]).user].recharged_amount + CreditOf(loc[p]).amount

\* C17: a claim_referral_bonus that returns success for a user whose pending
\* bonus was p > 0, handled with no other request in between, has set
\* pending_referral_bonus to 0, has increased balance, total_referral_earnings
\* and order_income by exactly p each, has left recharged_amount alone, and
\* has recorded exactly one transaction: a completed bonus transaction of
\* amount p.
C17_ClaimMovesPendingBonus ==
    \A p \in Procs :
        (pc[p] = "done" /\ loc[p].op = "claim" /\ loc[p].res = "ok")
        => LET l == loc[p]
               g == l.g_wallet
               b == g.pending_referral_bonus
               t == transactions[Len(transactions)]
           IN  /\ b > 0
               /\ user_wallets[l.user] =
                      [g EXCEPT !.pending_referral_bonus = 0,
                                !.balance = @ + b,
                                !.total_referral_earnings = @ + b,
                                !.order_income = @ + b]
               /\ Len(transactions) = l.g_ntx + 1
               /\ t.user_id = l.user /\ t.type = "bonus_referral_signup"
               /\ t.status = "completed" /\ t.amount = b

\* Witness of C17: a claim succeeded on a wallet that already held order
\* income and referral earnings.
C17_Witness ==
    \E p \in Procs :
        /\ pc[p] = "done" /\ loc[p].op = "claim" /\ loc[p].res = "ok"
        /\ loc[p].g_wallet.order_income > 0
        /\ loc[p].g_wallet.total_referral_earnings > 0
        /\ user_wallets[loc[p].user].pending_referral_bonus = 0

\* C18: when two claim_referral_bonus requests of one user have both read a
\* pending bonus p > 0 and no other operation writes the wallet, then however
\* their store calls interleave, balance, total_referral_earnings and
\* order_income are each either still at the value read or at that value
\* plus p, never plus 2p, and once both have returned they are at the value
\* read plus p with pending_referral_bonus = 0.
C18_ConcurrentClaimsPayOnce ==
    \A p, q \in Procs :
        ( /\ p # q
          /\ loc[p].op = "claim" /\ loc[q].op = "claim" /\ loc[p].user = loc[q].user
          /\ loc[p].read.pending_referral_bonus > 0
          /\ loc[q].read.pending_referral_bonus > 0 )
        => LET r == loc[p].read
               b == r.pending_referral_bonus
               w == user_wallets[loc[p].user]
           IN  /\ loc[q].read = r
               /\ w.balance \in {r.balance, r.balance + b}
               /\ w.total_referral_earnings
                     \in {r.total_referral_earnings, r.total_referral_earnings + b}
               /\ w.order_income \in {r.order_income, r.order_income + b}
               /\ (pc[p] = "done" /\ pc[q] = "done")
                  => /\ w.balance = r.balance + b
                     /\ w.total_referral_earnings = r.total_referral_earnings + b
                     /\ w.order_income = r.order_income + b
                     /\ w.pending_referral_bonus = 0

\* Witness of C18: two claims of one user that both read the pending bonus
\* have both returned success.
C18_Witness ==
    \E p, q \in Procs :
        /\ p # q
        /\ pc[p] = "done" /\ pc[q] = "done"
        /\ loc[p].op = "claim" /\ loc[q].op = "claim" /\ loc[p].user = loc[q].user
        /\ loc[p].res = "ok" /\ loc[q].res = "ok"
        /\ loc[p].read.pending_referral_bonus > 0
        /\ loc[q].read.pending_referral_bonus > 0

\* C19: a claim_referral_bonus for a user whose pending_referral_bonus is
\* <= 0 is rejected at its first store call, leaves the wallet as it was and
\* records no transaction.
C19_NoPendingBonusRejected ==
    \A p \in Procs :
        (loc[p].op = "claim" /\ loc[p].g_wallet.pending_referral_bonus <= 0)
        => /\ pc[p] = "done"
           /\ loc[p].res = "no_bonus"
           /\ user_wallets[loc[p].user] = loc[p].g_wallet
           /\ Len(transactions) = loc[p].g_ntx

\* Witness of C19: a second claim, after the bonus had been claimed, was
\* rejected.
C19_Witness ==
    \E p \in Procs :
        /\ pc[p] = "done" /\ loc[p].op = "claim" /\ loc[p].res = "no_bonus"
        /\ loc[p].g_wallet.balance > 0
        /\ \E t \in DOMAIN transactions :
              /\ transactions[t].type = "bonus_referral_signup"
              /\ transactions[t].user_id = loc[p].user

\* C20: resolving a pending withdrawal transaction to completed, with no
\* other request in between, returns success, leaves the transaction
\* completed and leaves every field of every wallet as it was.
C20_CompletionChangesNoWallet ==
    \A p \in Procs :
        ( /\ pc[p] = "done" /\ loc[p].op = "resolve" /\ loc[p].status = "completed"
          /\ loc[p].g_status = "pending"
          /\ transactions[loc[p].tx].type = "withdrawal" )
        => /\ loc[p].res = "ok"
           /\ transactions[loc[p].tx].status = "completed"
           /\ user_wallets = loc[p].g_all

\* Witness of C20: a pending withdrawal was resolved to completed, the
\* amount staying debited from order_income.
C20_Witness ==
    \E p \in Procs :
        /\ pc[p] = "done" /\ loc[p].op = "resolve" /\ loc[p].status = "completed"
        /\ loc[p].g_status = "pending" /\ loc[p].res = "ok"
        /\ transactions[loc[p].tx].type = "withdrawal"
        /\ transactions[loc[p].tx].status = "completed"
        /\ user_wallets[loc[p].user].order_income
              < user_wallets[loc[p].user].total_referral_earnings

\* C21: when a resolution to rejected or failed, handled with no other
\* request in between, has had its transaction lookup, its wallet fetch or
\* its wallet credit fail (missing row, no data returned, or an exception),
\* the transaction keeps the status it had and the request returns an error;
\* and a resolution of a withdrawal to rejected or failed that returned
\* success has written the refund.
C21_FailedRefundBlocksStatusUpdate ==
    \A p \in Procs :
        (loc[p].op = "resolve" /\ loc[p].status \in {"rejected", "failed"})
        => LET l == loc[p]
           IN  /\ l.fail # "none"
                  => /\ pc[p] = "done" => l.res = "error"
                     /\ l.tx \in DOMAIN transactions
                        => transactions[l.tx].status = l.g_status
               /\ ( /\ pc[p] = "done" /\ l.res = "ok"
                    /\ transactions[l.tx].type = "withdrawal" )
                  => /\ transactions[l.tx].status = l.status
                     /\ user_wallets[l.user].balance
                           = l.g_wallet.balance + transactions[l.tx].amount

\* C22: in every reachable state every field of every wallet (balance,
\* order_income, total_referral_earnings, pending_referral_bonus,
\* recharged_amount) is >= 0.
C22_WalletFieldsNonNegative ==
    \A u \in Users :
        /\ user_wallets[u].balance >= 0
        /\ user_wallets[u].order_income >= 0
        /\ user_wallets[u].total_referral_earnings >= 0
        /\ user_wallets[u].pending_referral_bonus >= 0
        /\ user_wallets[u].recharged_amount >= 0

\* The case of C23 (a verification selects a pending record that already has
\* is_credited = true) does not arise: status completed and is_credited are
\* written by one update, so no record is pending and credited, and no
\* verification holds a selected record with is_credited = true.
PendingNeverCredited ==
    /\ \A id \in DOMAIN manual_payments :
          manual_payments[id].status = "pending" => ~manual_payments[id].is_credited
    /\ \A p \in Procs :
          loc[p].op = "verify" => \A k \in DOMAIN loc[p].rows : ~loc[p].rows[k].is_credited

\* C24: when the rpc increment_recharged_amount has failed in a manual
\* verification, the record the verification was crediting is not left
\* completed with is_credited = true: it is pending and not credited, so that
\* a later verification of the UTR can still credit the payment.
C24_IncrementFailureLeavesRecordPending ==
    \A p \in Procs :
        (loc[p].op = "verify" /\ loc[p].fail = "increment")
        => LET id == loc[p].rows[loc[p].i].id
           IN  /\ manual_payments[id].status = "pending"
               /\ ~manual_payments[id].is_credited

\* C25: when a verification has selected several pending records of a UTR,
\* in whatever order the store returned them, the record it credits is the
\* one with the lowest id among the selected records.
C25_CreditsLowestId ==
    \A p \in Procs :
        (loc[p].op = "verify" /\ pc[p] \in {"v_comm", "v_log", "v_incr"})
        => \A k \in DOMAIN loc[p].rows : loc[p].rows[loc[p].i].id <= loc[p].rows[k].id

\* The commissions logged for referrer r in the first n rows of commissions.
RECURSIVE LoggedCommission(_, _)
LoggedCommission(r, n) ==
    IF n = 0 THEN 0
    ELSE LoggedCommission(r, n - 1)
         + (IF commissions[n].referrer_id = r THEN commissions[n].commission_amount ELSE 0)

\* The commission of the cascade of slot p when it has called the commission
\* rpc for referrer r and has not yet inserted the log.
UnloggedCommission(r, p) ==
    CASE pc[p] = "g_log" /\ ReferrerOf(loc[p].user) = r -> Commission(loc[p].amount)
      [] pc[p] = "v_log" /\ ReferrerOf(loc[p].rows[loc[p].i].user_id) = r ->
             Commission(loc[p].rows[loc[p].i].amount)
      [] OTHER -> 0

RECURSIVE UnloggedCommissions(_, _)
UnloggedCommissions(r, n) ==
    IF n = 0 THEN 0 ELSE UnloggedCommissions(r, n - 1) + UnloggedCommission(r, n)

\* C26: however the store calls of concurrent commission cascades to one
\* referrer interleave, with no other operation writing the referrer's
\* wallet, the referrer's order_income and total_referral_earnings have each
\* increased (from 0) by the sum of the commissions of the cascades that have
\* called the commission rpc: no commission is lost.
C26_ConcurrentCascadesLoseNothing ==
    \A r \in Users :
        LET sum == LoggedCommission(r, Len(commissions)) + UnloggedCommissions(r, NProcs)
        IN  /\ user_wallets[r].order_income = sum
            /\ user_wallets[r].total_referral_earnings = sum

\* Witness of C26: a manual and a gateway cascade to u1, of different
\* amounts, are both between the commission rpc and the log.
C26_Witness ==
    \E p, q \in Procs :
        /\ pc[p] = "v_log" /\ pc[q] = "g_log"
        /\ loc[q].amount # loc[p].rows[loc[p].i].amount
        /\ user_wallets["u1"].order_income
              = Commission(loc[q].amount) + Commission(loc[p].rows[loc[p].i].amount)

\* The order_income u had before any withdrawal: in InitWithdrawal it equals
\* the user's total_referral_earnings, a field that no withdrawal request and
\* no resolution writes.
AvailableBefore(u) == user_wallets[u].total_referral_earnings

\* The amounts of the pending withdrawal transactions of u among the first n
\* rows of transactions.
RECURSIVE PendingWithdrawn(_, _)
PendingWithdrawn(u, n) ==
    IF n = 0 THEN 0
    ELSE PendingWithdrawn(u, n - 1)
         + (IF /\ transactions[n].user_id = u
               /\ transactions[n].type = "withdrawal"
               /\ transactions[n].status = "pending"
            THEN transactions[n].amount ELSE 0)

\* C27: however concurrent withdrawal requests on one wallet interleave, the
\* amounts of the user's withdrawal transactions recorded as pending never
\* add up to more than the order_income the user had before them.
C27_PendingWithdrawalsCovered ==
    \A u \in Users : PendingWithdrawn(u, Len(transactions)) <= AvailableBefore(u)

\* The bonus amounts claimed by u: the bonus transactions among the first n
\* rows of transactions.
RECURSIVE RecordedBonus(_, _)
RecordedBonus(u, n) ==
    IF n = 0 THEN 0
    ELSE RecordedBonus(u, n - 1)
         + (IF /\ transactions[n].user_id = u
               /\ transactions[n].type = "bonus_referral_signup"
            THEN transactions[n].amount ELSE 0)

\* The bonus that the claim of slot p has written to the wallet of u and not
\* yet recorded.
UnrecordedBonus(u, p) ==
    IF pc[p] = "c_record" /\ loc[p].user = u
    THEN loc[p].read.pending_referral_bonus ELSE 0

RECURSIVE UnrecordedBonuses(_, _)
UnrecordedBonuses(u, n) ==
    IF n = 0 THEN 0 ELSE UnrecordedBonuses(u, n - 1) + UnrecordedBonus(u, n)

\* C28: when commission cascades run concurrently with bonus claims on the
\* referrer's wallet, no commission credited by the atomic increment is
\* overwritten: order_income is at every moment the sum of the commissions
\* credited (the first of them before the claims) and of the bonuses the
\* claims have moved into it.
C28_CommissionNotOverwritten ==
    \A u \in Users :
        user_wallets[u].order_income
            = LoggedCommission(u, Len(commissions)) + UnloggedCommissions(u, NProcs)
              + RecordedBonus(u, Len(transactions)) + UnrecordedBonuses(u, NProcs)

\* The withdrawal transactions of u created on day d.
WithdrawalsOn(u, d) ==
    {t \in DOMAIN transactions :
        /\ transactions[t].user_id = u
        /\ transactions[t].type = "withdrawal"
        /\ transactions[t].day = d}

\* C29: in every reachable state, concurrent withdrawal requests of one user
\* included, no user has more than 2 withdrawal transactions created on the
\* same day.
C29_AtMostTwoWithdrawalsADay ==
    \A u \in Users, d \in 0..MaxDay : Cardinality(WithdrawalsOn(u, d)) <= 2

\* C30: at every step, concurrent verifications and rejections of one UTR
\* included, a record with is_credited = true has status completed (so a
\* rejected record is not one that triggered a credit), and a record whose
\* status is completed or rejected keeps that status.
C30_CreditedIsCompletedAndFinal ==
    [][ /\ \A id \in DOMAIN manual_payments' :
              manual_payments'[id].is_credited => manual_payments'[id].status = "completed"
        /\ \A id \in DOMAIN manual_payments :
              manual_payments[id].status \in {"completed", "rejected"}
              => manual_payments'[id].status = manual_payments[id].status
      ]_vars

\* The investments of u the commission logs 1..n record.
RECURSIVE LoggedInvestment(_, _)
LoggedInvestment(u, n) ==
    IF n = 0 THEN 0
    ELSE LoggedInvestment(u, n - 1)
         + (IF commissions[n].referred_user_id = u
            THEN commissions[n].investment_amount ELSE 0)

\* C31: a commission is paid only for a recharge that was credited, also when
\* the rpc increment_recharged_amount fails: a verification in which that rpc
\* failed has changed no wallet and added no commission log, and the
\* investments the commission logs record for a user never exceed what was
\* added to the user's recharged_amount.
C31_CommissionOnlyForCreditedRecharge ==
    /\ \A p \in Procs :
          (loc[p].op \in {"verify", "gw_verify"} /\ loc[p].fail = "increment")
          => /\ user_wallets = loc[p].g_all
             /\ Len(commissions) = loc[p].g_ncomm
    /\ AllIdle =>
          \A u \in Users :
              LoggedInvestment(u, Len(commissions)) <= user_wallets[u].recharged_amount

\* C32: every successful commission increment has exactly one commission log
\* and every log one increment, also when a call of the cascade fails: when no
\* request is in flight, what the commission rpc has added to a referrer's
\* total_referral_earnings is the sum of the referrer's commission logs.
C32_OneLogPerCommissionIncrement ==
    AllIdle =>
        \A r \in Users :
            user_wallets[r].total_referral_earnings = LoggedCommission(r, Len(commissions))

\* C33: the user whose recharged_amount a gateway verification has
\* incremented, and the amount it has added, are the user and the amount of
\* the recharge transaction create_razorpay_order recorded for the order.
C33_GatewayCreditsTheOrder ==
    \A p \in Procs :
        (/\ loc[p].op = "gw_verify"
         /\ \/ pc[p] = "g_upd"
            \/ pc[p] = "done" /\ loc[p].res = "ok")
        => \E t \in DOMAIN transactions :
              /\ transactions[t].type = "recharge"
              /\ transactions[t].order_id = loc[p].order
              /\ transactions[t].user_id = loc[p].user
              /\ transactions[t].amount = loc[p].amount

\* A payment has been credited to u's own wallet: a manual payment record of
\* u with is_credited = true, or a completed gateway recharge of u.
HasCreditedPayment(u) ==
    \/ \E id \in DOMAIN manual_payments :
          manual_payments[id].user_id = u /\ manual_payments[id].is_credited
    \/ HasCompletedRecharge(u)

\* C34: a withdrawal request gets past the eligibility gate only if a payment
\* was credited to the requesting user's own wallet; a user whose manual
\* payment records were only marked completed, as duplicates of a UTR
\* credited to another user's record, is rejected at the gate.
C34_UncreditedUserCannotWithdraw ==
    \A p \in Procs :
        (/\ loc[p].op = "withdraw"
         /\ \/ pc[p] \in {"w_wallet", "w_debit", "w_record", "w_refund"}
            \/ pc[p] = "done" /\ loc[p].res \notin {"invalid", "limit", "no_investment"})
        => HasCreditedPayment(loc[p].user)

\* The verification of slot p has just ended on a failed signature check.
SignatureRejected(p) ==
    pc[p] = "idle" /\ pc'[p] = "done" /\ loc'[p].res = "bad_signature"

\* C35 as stated: a verification whose signature check fails changes no
\* wallet and no commission log, and leaves every recharge transaction of
\* the order failed.
C35_BadSignatureMarksFailed ==
    [][\A p \in Procs :
          SignatureRejected(p)
          => /\ user_wallets' = user_wallets
             /\ commissions' = commissions
             /\ \A t \in DOMAIN transactions :
                   (transactions[t].type = "recharge"
                    /\ transactions[t].order_id = loc'[p].order)
                   => transactions'[t].status = "failed"]_vars

\* C35, amended: a verification whose signature check fails changes no wallet
\* and no commission log; it marks failed the transactions that still carry
\* the order id as payment_gateway_id and leaves every other transaction, a
\* completed one of the same order included, as it was.
C35_BadSignatureMarksPendingFailed ==
    [][\A p \in Procs :
          SignatureRejected(p)
          => /\ user_wallets' = user_wallets
             /\ commissions' = commissions
             /\ \A t \in DOMAIN transactions :
                   IF transactions[t].payment_gateway_id = loc'[p].order
                   THEN transactions'[t].status = "failed"
                   ELSE transactions'[t] = transactions[t]]_vars

\* A verification has failed the signature check and the order's transaction
\* is failed.
C35_Witness ==
    \E p \in Procs :
        /\ pc[p] = "done"
        /\ loc[p].res = "bad_signature"
        /\ \E t \in DOMAIN transactions :
              /\ transactions[t].order_id = loc[p].order
              /\ transactions[t].status = "failed"

\* C36: when no request is in flight, a recharge transaction of a gateway
\* order is completed exactly if a verification has incremented
\* recharged_amount for the order, and none is failed after such an increment,
\* also when a store call after the increment has raised.
C36_CompletedIffIncremented ==
    AllIdle =>
        \A t \in DOMAIN transactions :
            transactions[t].type = "recharge"
            => /\ transactions[t].status = "completed"
                      <=> gwIncr[transactions[t].order_id] > 0
               /\ transactions[t].status = "failed"
                      => gwIncr[transactions[t].order_id] = 0

\* The verification of slot p has just read the records of its UTR and none
\* of them was pending.
VerifiedNothingPending(p) ==
    /\ pc[p] = "idle"
    /\ pc'[p] # "idle"
    /\ loc'[p].op = "verify"
    /\ \A id \in DOMAIN manual_payments :
          manual_payments[id].utr_number = loc'[p].utr
          => manual_payments[id].status # "pending"

\* C37: a verification of a UTR that has no pending record, as a second
\* verification with nothing new submitted is, answers not-found and changes
\* no wallet, no payment record and no commission log.
C37_VerifyWithoutPendingChangesNothing ==
    [][\A p \in Procs :
          VerifiedNothingPending(p)
          => /\ pc'[p] = "done"
             /\ loc'[p].res = "not_found"
             /\ user_wallets' = user_wallets
             /\ manual_payments' = manual_payments
             /\ commissions' = commissions]_vars

\* A UTR has been verified with success and a second verification of it has
\* answered not-found.
C37_Witness ==
    \E p \in Procs :
        /\ pc[p] = "done"
        /\ loc[p].op = "verify"
        /\ loc[p].res = "not_found"
        /\ okVerify[loc[p].utr]
        /\ incrCount[loc[p].utr] = 1

\* The sign-ups that used the referral code of r: the one InitBonus records
\* for u1 and those the slots have finished.
SignupsOf(r) ==
    (IF r = "u1" THEN 1 ELSE 0)
    + Cardinality({p \in Procs : pc[p] = "done" /\ loc[p].op = "signup" /\ loc[p].user = r})

\* C38: when no sign-up and no claim is in flight, the pending bonus of a
\* referrer and the bonus the referrer's claims have moved into balance add
\* up to the flat sign-up bonus times the sign-ups that used the referrer's
\* code, however the sign-ups and the claims interleaved.
C38_BonusNeitherLostNorDoubled ==
    (\A p \in Procs : pc[p] \in {"idle", "done"})
    => \A r \in Users :
          user_wallets[r].pending_referral_bonus + user_wallets[r].balance
              = SignupsOf(r) * SignupBonus

====
